---- MODULE Spec2Model ----
(***************************************************************************)
(* Hireability scoring engine (services/scoringEngine.ts) and the data it  *)
(* is fed with.                                                            *)
(*                                                                         *)
(* Numbers.  The engine computes with IEEE doubles.  Here a real value v   *)
(* is the integer floor(v * SCALE): SCALE = 2520 makes every quotient by   *)
(* 2..10, 12, 14, 18, 20, 30 and 90 exact, so the only values that are     *)
(* truncated are the logarithms, the account age and followers / 100 for a *)
(* follower count that is no multiple of 5.                                *)
(*                                                                         *)
(* Time.  An instant is an integer number of clock ticks since local       *)
(* midnight of 1 January; a day is TicksPerDay ticks (the code's           *)
(* 1000 * 60 * 60 * 24 milliseconds), the local zone is UTC and a year has *)
(* 365 days.  A timestamp text is a record [t, off]: the wall-clock        *)
(* reading t written with zone offset off; it denotes the instant t - off. *)
(***************************************************************************)
EXTENDS Integers, Sequences, FiniteSets

VARIABLES
  repos,          \* the repository list handed to the engine
  profile,        \* the profile handed to the engine
  clock,          \* the system clock, read by every `new Date()`
  pc,             \* "idle" | "now" | "done": position of the call
  now,            \* scoringEngine.ts:16
  ninetyDaysAgo,  \* scoringEngine.ts:17-18
  scores,         \* the unrounded locals of the call (lines 52-81)
  result,         \* the returned ScoringMetrics (lines 92-105)
  first,          \* the previous call of a pair: [called, now, result]
  step,           \* position of handleAnalyze: "idle" | "fetching" |
                  \* "scoring" | "evaluated" | "caught" | "finally"
  loading,        \* useState(false)
  error,          \* useState<string | null>(null)
  data,           \* useState<{profile, repos, metrics, aiEval} | null>(null)
  aiEval,         \* how generateAIEvaluation settled, and with what
  username,       \* useState(''), as read by handleAnalyze
  thrown          \* the exception on its way to handleAnalyze's catch

\* the state of the App component and of its handleAnalyze
ui == <<step, loading, error, data, aiEval, username, thrown>>

vars ==
  <<repos, profile, clock, pc, now, ninetyDaysAgo, scores, result, first, ui>>

-----------------------------------------------------------------------------
(* Bounds of the model *)

MaxRepos == 5
MaxTicks == 1
MaxPair == 2
MaxWorks == 4

-----------------------------------------------------------------------------
(* Arithmetic *)

SCALE == 2520
TicksPerDay == 24

Min(a, b) == IF a <= b THEN a ELSE b
Max(a, b) == IF a >= b THEN a ELSE b

\* floor(a * b / c) for b >= 0, c > 0, without forming a * b
MulDiv(a, b, c) == (a \div c) * b + ((a % c) * b) \div c

\* Math.round: the nearest integer, halves towards +infinity
MathRound(v) == (2 * v + SCALE) \div (2 * SCALE)

\* the characteristic of num/den >= 1: the k with 10^k <= num/den < 10^(k+1)
RECURSIVE Characteristic(_, _)
Characteristic(num, den) ==
  IF num >= 10 * den THEN 1 + Characteristic(num, 10 * den) ELSE 0

RECURSIVE Pow10(_)
Pow10(k) == IF k = 0 THEN 1 ELSE 10 * Pow10(k - 1)

\* long division: q and r are the quotient and remainder so far
RECURSIVE LongDiv(_, _, _, _)
LongDiv(q, r, den, digits) ==
  IF digits = 0 THEN q
  ELSE LongDiv(10 * q + (10 * r) \div den, (10 * r) % den, den, digits - 1)

\* the mantissa num/den in [1, 10) to six decimals: floor(num * 10^6 / den)
Mantissa(num, den) == LongDiv(num \div den, num % den, den, 6)

\* y * y for a six-decimal y < 10, again to six decimals
Square(y) ==
  LET a == y \div 1000
      b == y % 1000
  IN  a * a + (2 * a * b + (b * b) \div 1000) \div 1000

\* the first `bits` binary digits of log10(y) for a six-decimal y in [1, 10):
\* squaring y doubles its logarithm, which reaches 1 when the square reaches 10
RECURSIVE LogBits(_, _)
LogBits(y, bits) ==
  IF bits = 0 THEN 0
  ELSE LET s == Square(y)
       IN  IF s >= 10000000
           THEN 2 ^ (bits - 1) + LogBits(s \div 10, bits - 1)
           ELSE LogBits(s, bits - 1)

\* Math.log10(num / den) for num/den >= 1
Log10(num, den) ==
  LET k == Characteristic(num, den)
  IN  k * SCALE + (LogBits(Mantissa(num, den * Pow10(k)), 16) * SCALE) \div 65536

-----------------------------------------------------------------------------
(* Dates *)

\* new Date(text).getTime()
GetTime(text) == text.t - text.off

\* Date.prototype.toISOString: the instant written in UTC
ToISOString(instant) == [t |-> instant, off |-> 0]

MonthDays == <<31, 28, 31, 30, 31, 30, 31, 31, 30, 31, 30, 31>>

\* the day of the month (1..31) of the d-th day (0..364) of the year
RECURSIVE DayOfMonth(_, _)
DayOfMonth(d, m) ==
  IF d < MonthDays[m] THEN d + 1 ELSE DayOfMonth(d - MonthDays[m], m + 1)

\* Date.prototype.getDate
GetDate(instant) == DayOfMonth((instant \div TicksPerDay) % 365, 1)

\* Date.prototype.setDate(n): day n of the month of `instant`, n of any sign,
\* at the same time of day
SetDate(instant, n) == instant + (n - GetDate(instant)) * TicksPerDay

-----------------------------------------------------------------------------
(* Optional strings: a description or a language may be absent (null) *)

Absent == "<absent>"

\* Boolean(s) of an optional string: null and "" are falsy
Truthy(s) == s # Absent /\ s # ""

\* s?.length || 0
OptLength(s) == IF s = Absent THEN 0 ELSE Len(s)

RECURSIVE SumSeq(_)
SumSeq(ns) == IF ns = <<>> THEN 0 ELSE Head(ns) + SumSeq(Tail(ns))

-----------------------------------------------------------------------------
(* calculateHireabilityScore, local by local *)

originalRepos(rs) == SelectSeq(rs, LAMBDA r : ~r.fork)

originalityRatio(rs) ==
  IF Len(rs) > 0 THEN (Len(originalRepos(rs)) * SCALE) \div Len(rs) ELSE 0

\* Array.prototype.sort is stable: r goes behind every element that the
\* comparator does not put after it
RECURSIVE InsertByPush(_, _)
InsertByPush(sorted, r) ==
  IF sorted = <<>> THEN <<r>>
  ELSE IF GetTime(r.pushed_at) - GetTime(Head(sorted).pushed_at) > 0
       THEN <<r>> \o sorted
       ELSE <<Head(sorted)>> \o InsertByPush(Tail(sorted), r)

RECURSIVE SortFrom(_, _)
SortFrom(sorted, rest) ==
  IF rest = <<>> THEN sorted
  ELSE SortFrom(InsertByPush(sorted, Head(rest)), Tail(rest))

\* [...repos].sort((a, b) => time(b) - time(a))
sortedByPush(rs) == SortFrom(<<>>, rs)

\* a variant in which sort() is applied to the argument itself
reposAfterSort_InPlace(rs) == sortedByPush(rs)

\* the caller's array after lines 31-33: sort() reorders the array it is
\* called on, which is the fresh copy [...repos], so the argument keeps its
\* elements and their order
reposAfterSort(rs) == rs

lastDate(rs) == GetTime(sortedByPush(rs)[1].pushed_at)

NA == [text |-> "N/A"]

lastCommitDate(rs) == IF Len(rs) > 0 THEN ToISOString(lastDate(rs)) ELSE NA

\* a variant with 0 in place of the 999 sentinel
daysSinceLastActivity_NoSentinel(rs, nw) ==
  IF Len(rs) > 0 THEN (nw - lastDate(rs)) \div TicksPerDay ELSE 0

daysSinceLastActivity(rs, nw) ==
  IF Len(rs) > 0 THEN (nw - lastDate(rs)) \div TicksPerDay ELSE 999

\* a variant that counts the original repositories only
recentActivityVelocity_OriginalsOnly(rs, nda) ==
  IF Len(rs) > 0
  THEN Len(SelectSeq(originalRepos(rs),
                     LAMBDA repo : GetTime(repo.pushed_at) >= nda))
  ELSE 0

recentActivityVelocity(rs, nda) ==
  IF Len(rs) > 0
  THEN Len(SelectSeq(rs, LAMBDA repo : GetTime(repo.pushed_at) >= nda))
  ELSE 0

\* a variant with a strict first threshold
activityLevel_StrictWeek(days, velocity) ==
  IF days < 7 /\ velocity >= 5 THEN "HIGHLY_ACTIVE"
  ELSE IF days <= 30 /\ velocity >= 1 THEN "MODERATELY_ACTIVE"
  ELSE "INACTIVE"

activityLevel(days, velocity) ==
  IF days <= 7 /\ velocity >= 5 THEN "HIGHLY_ACTIVE"
  ELSE IF days <= 30 /\ velocity >= 1 THEN "MODERATELY_ACTIVE"
  ELSE "INACTIVE"

\* a variant without the floor at zero
recencyMultiplier_NoFloor(days) ==
  IF days = 0 THEN SCALE ELSE SCALE - MulDiv(days, SCALE, 90)

recencyMultiplier(days) ==
  IF days = 0 THEN SCALE ELSE Max(0, SCALE - MulDiv(days, SCALE, 90))

activityScore(days, velocity) ==
  (Min(10, velocity) * 3) * recencyMultiplier(days)

originalityScore(rs) == originalityRatio(rs) * 20

totalStars(rs) ==
  LET o == originalRepos(rs)
  IN  SumSeq([i \in 1..Len(o) |-> o[i].stargazers_count])

\* a variant that takes the languages of the whole list
languages_WithForks(rs) ==
  {l \in {rs[i].language : i \in 1..Len(rs)} : Truthy(l)}

languages(rs) ==
  LET o == originalRepos(rs)
  IN  {l \in {o[i].language : i \in 1..Len(o)} : Truthy(l)}

starBonus(rs) == Min(5 * SCALE, (Log10(totalStars(rs) + 1, 1) * 5) \div 2)

languageBonus(rs) ==
  Min(10 * SCALE, ((Cardinality(languages(rs)) * SCALE) \div 4) * 10)

diversityScore(rs) == starBonus(rs) + languageBonus(rs)

\* a variant that counts a description of exactly 20 characters
reposWithDesc_From20(rs) ==
  Len(SelectSeq(originalRepos(rs), LAMBDA r : OptLength(r.description) >= 20))

reposWithDesc(rs) ==
  Len(SelectSeq(originalRepos(rs), LAMBDA r : OptLength(r.description) > 20))

featureUsage(rs) ==
  Len(SelectSeq(originalRepos(rs),
                LAMBDA r : r.has_issues \/ r.has_pages \/ r.has_projects))

docRatio(rs) ==
  IF Len(originalRepos(rs)) > 0
  THEN ((reposWithDesc(rs) + featureUsage(rs)) * SCALE)
         \div (Len(originalRepos(rs)) * 2)
  ELSE 0

documentationScore(rs) == docRatio(rs) * 15

accountAgeYears(p, nw) ==
  MulDiv(nw - GetTime(p.created_at), SCALE, TicksPerDay * 365)

ageScore(p, nw) == Min(5 * SCALE, accountAgeYears(p, nw))

followerScore(p) == Min(5 * SCALE, ((p.followers * SCALE) \div 100) * 5)

followerSignal(p, nw) == ageScore(p, nw) + followerScore(p)

\* log10(avgSize + 1), avgSize the quotient of the sizes' sum by the count
LogAvgSize(rs) ==
  LET o == originalRepos(rs)
      sum == SumSeq([i \in 1..Len(o) |-> o[i].size])
  IN  IF Len(o) > 0 THEN Log10(sum + Len(o), Len(o)) ELSE Log10(1, 1)

complexityScore(rs) == Min(10 * SCALE, (LogAvgSize(rs) * 10) \div 5)

\* the six unrounded terms of the total
Locals(p, rs, nw, nda) ==
  LET days == daysSinceLastActivity(rs, nw)
      velocity == recentActivityVelocity(rs, nda)
  IN  [activityScore      |-> activityScore(days, velocity),
       originalityScore   |-> originalityScore(rs),
       diversityScore     |-> diversityScore(rs),
       documentationScore |-> documentationScore(rs),
       followerSignal     |-> followerSignal(p, nw),
       complexityScore    |-> complexityScore(rs),
       starBonus          |-> starBonus(rs),
       languageBonus      |-> languageBonus(rs),
       recencyMultiplier  |-> recencyMultiplier(days)]

\* a variant that adds the rounded sub-scores
totalScore_SumOfRounded(l) ==
  MathRound(l.activityScore) + MathRound(l.originalityScore)
  + MathRound(l.diversityScore) + MathRound(l.documentationScore)
  + MathRound(l.followerSignal) + MathRound(l.complexityScore)

totalScore(l) ==
  MathRound(l.activityScore + l.originalityScore + l.diversityScore
            + l.documentationScore + l.followerSignal + l.complexityScore)

\* the returned record
Metrics(rs, nw, nda, l) ==
  [totalScore             |-> totalScore(l),
   repoCountScore         |-> MathRound(l.originalityScore),
   starImpact             |-> MathRound(l.starBonus),
   activityScore          |-> MathRound(l.activityScore),
   diversityScore         |-> MathRound(l.diversityScore),
   followerSignal         |-> MathRound(l.followerSignal),
   documentationScore     |-> MathRound(l.documentationScore),
   originalityScore       |-> MathRound(l.originalityScore),
   activityLevel          |-> activityLevel(daysSinceLastActivity(rs, nw),
                                            recentActivityVelocity(rs, nda)),
   lastCommitDate         |-> lastCommitDate(rs),
   daysSinceLastActivity  |-> daysSinceLastActivity(rs, nw),
   recentActivityVelocity |-> recentActivityVelocity(rs, nda)]

-----------------------------------------------------------------------------
(* The data the engine is called with *)

\* the clock reading when the call starts: 31 January, 23:00
T0 == 30 * TicksPerDay + 23

Day == TicksPerDay

Repo(pushed, fork, stars, language, description, size, issues, projects, pages) ==
  [pushed_at |-> pushed, fork |-> fork, stargazers_count |-> stars,
   language |-> language, description |-> description, size |-> size,
   has_issues |-> issues, has_projects |-> projects, has_pages |-> pages]

\* an original repository pushed at the very instant of the call
RepoGo ==
  Repo([t |-> T0, off |-> 0], FALSE, 120, "Go",
       "Small and fast HTTP request router in Go", 5000, TRUE, FALSE, FALSE)

\* a fork pushed exactly 7 days before, its timestamp written at +01:00
RepoFork ==
  Repo([t |-> T0 - 7 * Day + 1, off |-> 1], TRUE, 9, "Rust",
       "Fork of the tokio runtime", 300, FALSE, FALSE, TRUE)

\* an original repository pushed exactly 30 days before, with no description,
\* an empty language, no stars and no content
RepoBare ==
  Repo([t |-> T0 - 30 * Day, off |-> 0], FALSE, 0, "",
       Absent, 0, FALSE, FALSE, FALSE)

\* an original repository pushed exactly 90 days before, with no language
\* and a description of exactly 20 characters
RepoOld ==
  Repo([t |-> T0 - 90 * Day, off |-> 0], FALSE, 1, Absent,
       "Personal dotfiles...", 99, FALSE, TRUE, FALSE)

Catalogue == {RepoGo, RepoFork, RepoBare, RepoOld}

\* created two years before the call, 50 followers
ProfileTwoYears ==
  [created_at |-> [t |-> T0 - 2 * 365 * Day, off |-> 0], followers |-> 50]

\* created long ago, many followers
ProfileVeteran ==
  [created_at |-> [t |-> T0 - 6 * 365 * Day - 11, off |-> 1], followers |-> 250]

\* created_at later than the reading of the local clock (a clock set back)
ProfileAhead ==
  [created_at |-> [t |-> T0 + 365 * Day, off |-> 0], followers |-> 0]

Profiles == {ProfileTwoYears, ProfileVeteran, ProfileAhead}

RECURSIVE ListsUpTo(_)
ListsUpTo(n) ==
  IF n = 0 THEN {<<>>}
  ELSE LET shorter == ListsUpTo(n - 1)
       IN  shorter \cup {Append(l, r) : l \in shorter, r \in Catalogue}

-----------------------------------------------------------------------------
(* The state machine *)

NoLocals == Locals(ProfileTwoYears, <<>>, 0, 0)
NoMetrics == Metrics(<<>>, 0, 0, NoLocals)
\* null, for the state of the component
Null == [null |-> TRUE]

NoCall == [called |-> FALSE, now |-> 0, result |-> NoMetrics]

Start ==
  /\ clock = T0
  /\ pc = "idle"
  /\ now = 0
  /\ ninetyDaysAgo = 0
  /\ scores = NoLocals
  /\ result = NoMetrics
  /\ first = NoCall
  /\ step = "idle"
  /\ loading = FALSE
  /\ error = Null
  /\ data = Null
  /\ aiEval = Null
  /\ username = ""
  /\ thrown = Null

Init ==
  /\ repos = <<>>
  /\ profile \in Profiles
  /\ Start

\* the caller collects the repository list
AddRepo(r) ==
  /\ pc = "idle"
  /\ Len(repos) < MaxRepos
  /\ repos' = Append(repos, r)
  /\ UNCHANGED <<profile, clock, pc, now, ninetyDaysAgo, scores, result, first, ui>>

\* const now = new Date()
SampleNow ==
  /\ pc = "idle"
  /\ now' = clock
  /\ pc' = "now"
  /\ UNCHANGED <<repos, profile, clock, ninetyDaysAgo, scores, result, first, ui>>

\* the clock advances between two readings of it
Tick ==
  /\ pc = "now"
  /\ clock < T0 + MaxTicks
  /\ clock' = clock + 1
  /\ UNCHANGED <<repos, profile, pc, now, ninetyDaysAgo, scores, result, first, ui>>

\* const ninetyDaysAgo = new Date(); ninetyDaysAgo.setDate(now.getDate() - 90)
NinetyDaysAgo(reading, nw) == SetDate(reading, GetDate(nw) - 90)

\* the rest of the call, from the second reading of the clock to the return
Score ==
  /\ pc = "now"
  /\ LET nda == NinetyDaysAgo(clock, now)
         l == Locals(profile, repos, now, nda)
     IN  /\ ninetyDaysAgo' = nda
         /\ scores' = l
         /\ result' = Metrics(repos, now, nda, l)
  /\ pc' = "done"
  /\ repos' = reposAfterSort(repos)
  /\ UNCHANGED <<profile, clock, now, first, ui>>

Next ==
  \/ \E r \in Catalogue : AddRepo(r)
  \/ SampleNow
  \/ Tick
  \/ Score

Spec == Init /\ [][Next]_vars

\* a second call with the same profile and repository list
Again ==
  /\ pc = "done"
  /\ ~first.called
  /\ first' = [called |-> TRUE, now |-> now, result |-> result]
  /\ pc' = "idle"
  /\ UNCHANGED <<repos, profile, clock, now, ninetyDaysAgo, scores, result, ui>>

InitPair ==
  /\ repos \in ListsUpTo(MaxPair)
  /\ profile \in Profiles
  /\ Start

NextPair ==
  \/ SampleNow
  \/ Tick
  \/ Score
  \/ Again

SpecPair == InitPair /\ [][NextPair]_vars

-----------------------------------------------------------------------------
(* Calls on portfolios that differ in languages, descriptions and features *)

\* description longer than 20, issues only
WorkGo ==
  Repo([t |-> T0 - 1 * Day, off |-> 0], FALSE, 12, "Go",
       "Command line client for the weather API.", 800, TRUE, FALSE, FALSE)

\* description of 21 characters, no feature
WorkTypeScript ==
  Repo([t |-> T0 - 2 * Day, off |-> 0], FALSE, 3, "TypeScript",
       "Markdown table linter", 150, FALSE, FALSE, FALSE)

\* empty description, pages only
WorkPython ==
  Repo([t |-> T0 - 3 * Day, off |-> 0], FALSE, 0, "Python",
       "", 40, FALSE, FALSE, TRUE)

\* description of 20 characters, projects only
WorkRust ==
  Repo([t |-> T0 - 10 * Day, off |-> 0], FALSE, 0, "Rust",
       "Advent of code, 2023", 2000, FALSE, TRUE, FALSE)

\* no description, no feature
WorkJava ==
  Repo([t |-> T0 - 40 * Day, off |-> 0], FALSE, 1, "Java",
       Absent, 10, FALSE, FALSE, FALSE)

\* a fork in a language of its own, described, with every feature
WorkFork ==
  Repo([t |-> T0 - 5 * Day, off |-> 0], TRUE, 40, "Kotlin",
       "Android port of an open source game engin", 9000, TRUE, TRUE, TRUE)

\* an original repository with an empty language, described, two features
WorkEmptyLanguage ==
  Repo([t |-> T0 - 6 * Day, off |-> 0], FALSE, 2, "",
       "Notes from a reading club", 5, TRUE, FALSE, TRUE)

\* an original repository without language, description or feature
WorkNoLanguage ==
  Repo([t |-> T0 - 100 * Day, off |-> 0], FALSE, 0, Absent,
       Absent, 0, FALSE, FALSE, FALSE)

Portfolio ==
  {WorkGo, WorkTypeScript, WorkPython, WorkRust, WorkJava, WorkFork,
   WorkEmptyLanguage, WorkNoLanguage}

RECURSIVE WorksUpTo(_)
WorksUpTo(n) ==
  IF n = 0 THEN {<<>>}
  ELSE LET shorter == WorksUpTo(n - 1)
       IN  shorter \cup {Append(l, r) : l \in shorter, r \in Portfolio}

InitPortfolio ==
  /\ repos \in WorksUpTo(MaxWorks)
  /\ profile = ProfileTwoYears
  /\ Start

NextPortfolio ==
  \/ SampleNow
  \/ Tick
  \/ Score

SpecPortfolio == InitPortfolio /\ [][NextPortfolio]_vars

-----------------------------------------------------------------------------
(* The App component: handleAnalyze, fetchGitHubData, generateAIEvaluation *)

HiringTier ==
  [ELITE |-> "Elite", STRONG_HIRE |-> "Strong Hire", HIREABLE |-> "Hireable",
   NEEDS_IMPROVEMENT |-> "Needs Improvement", REJECT |-> "Reject"]

\* created six years before, 40 followers
ProfileSenior ==
  [created_at |-> [t |-> T0 - 6 * 365 * Day, off |-> 0], followers |-> 40]

\* created six years before, 60 followers
ProfilePopular ==
  [created_at |-> [t |-> T0 - 6 * 365 * Day, off |-> 0], followers |-> 60]

\* as served with sort=pushed: the latest push first
FourWorks == <<RepoGo, WorkTypeScript, WorkPython, WorkRust>>

\* what the GitHub API holds: totals 57, 70 and 71 when scored at T0
Accounts ==
  [octo57 |-> [profile |-> ProfileTwoYears, repos |-> <<RepoGo>>],
   octo70 |-> [profile |-> ProfileSenior, repos |-> FourWorks],
   octo71 |-> [profile |-> ProfilePopular, repos |-> FourWorks]]

\* what the user may have typed
Usernames == {"octo57", "octo70", "octo71", "ghost", "", "   "}

\* username.trim()
Trim(u) == IF u = "   " THEN "" ELSE u

\* handleAnalyze up to its first await
Submit(u) ==
  /\ step = "idle"
  /\ Trim(u) # ""
  /\ username' = u
  /\ loading' = TRUE
  /\ error' = Null
  /\ data' = Null
  /\ step' = "fetching"
  /\ pc' = "idle"
  /\ aiEval' = Null
  /\ thrown' = Null
  /\ UNCHANGED <<repos, profile, clock, now, ninetyDaysAgo, scores, result, first>>

\* the status of the profile response: an unknown user is a 404
ProfileStatuses(u) ==
  IF u \in DOMAIN Accounts THEN {200, 403, 500} ELSE {404, 403, 500}

\* fetchGitHubData throws: the message of the Error
FetchThrows(message) ==
  /\ step = "fetching"
  /\ \E status \in ProfileStatuses(username) :
       \/ status = 404 /\ message = "CANDIDATE_NOT_FOUND"
       \/ status = 403 /\ message = "RATE_LIMIT_EXCEEDED"
       \/ status = 500 /\ message = "API_FAILURE: Internal Server Error"
       \/ status = 200 /\ message \in {"Failed to fetch", ""}
  /\ thrown' = [message |-> message]
  /\ step' = "caught"
  /\ UNCHANGED <<repos, profile, clock, pc, now, ninetyDaysAgo, scores, result,
                 first, loading, error, data, aiEval, username>>

\* fetchGitHubData returns: the repository list stays empty when the first
\* page's response is not ok
FetchReturns(reposOk) ==
  /\ step = "fetching"
  /\ username \in DOMAIN Accounts
  /\ profile' = Accounts[username].profile
  /\ repos' = IF reposOk THEN Accounts[username].repos ELSE <<>>
  /\ step' = "scoring"
  /\ UNCHANGED <<clock, pc, now, ninetyDaysAgo, scores, result, first,
                 loading, error, data, aiEval, username, thrown>>

\* a variant with >= in place of >
FallbackTier_From70(total) ==
  IF total >= 70 THEN HiringTier.STRONG_HIRE ELSE HiringTier.NEEDS_IMPROVEMENT

\* the tier of the catch block of generateAIEvaluation
FallbackTier(total) ==
  IF total > 70 THEN HiringTier.STRONG_HIRE ELSE HiringTier.NEEDS_IMPROVEMENT

Fallback(metrics) ==
  [tier |-> FallbackTier(metrics.totalScore),
   strengths |-> <<"Quantitative threshold met">>,
   risks |-> <<"Qualitative audit failed (API)">>,
   verdict |-> "Fallback: Statistical analysis suggests viable candidate.",
   recommendations |-> <<"Audit READMEs manually", "Validate commit history">>]

\* what JSON.parse may return for a response of the model
Answers ==
  {[tier |-> t, strengths |-> <<>>, risks |-> <<>>, verdict |-> "",
    recommendations |-> <<>>] : t \in {"ELITE", "REJECT"}}

\* generateAIEvaluation settles.  outcome: "setup" (the client constructor
\* throws, before the try), "call" (generateContent rejects), "parse"
\* (JSON.parse throws) or "answer"
Evaluate(outcome) ==
  /\ step = "scoring"
  /\ pc = "done"
  /\ \/ /\ outcome = "setup"
        /\ aiEval' = [outcome |-> outcome, settled |-> "rejected"]
        /\ thrown' = [message |-> "An API Key must be set when running in a browser"]
        /\ step' = "caught"
     \/ /\ outcome \in {"call", "parse"}
        /\ aiEval' = [outcome |-> outcome, settled |-> "resolved",
                      value |-> Fallback(result)]
        /\ thrown' = thrown
        /\ step' = "evaluated"
     \/ /\ outcome = "answer"
        /\ \E answer \in Answers :
             aiEval' = [outcome |-> outcome, settled |-> "resolved",
                        value |-> answer]
        /\ thrown' = thrown
        /\ step' = "evaluated"
  /\ UNCHANGED <<repos, profile, clock, pc, now, ninetyDaysAgo, scores, result,
                 first, loading, error, data, username>>

\* setData({ profile, repos, metrics, aiEval })
SetData ==
  /\ step = "evaluated"
  /\ data' = [profile |-> profile, repos |-> repos, metrics |-> result,
              aiEval |-> aiEval.value]
  /\ step' = "finally"
  /\ UNCHANGED <<repos, profile, clock, pc, now, ninetyDaysAgo, scores, result,
                 first, loading, error, aiEval, username, thrown>>

\* a variant without the default text
ErrorText_Raw(message) == message

\* err.message || 'Audit Interrupted: ...'
ErrorText(message) ==
  IF message # ""
  THEN message
  ELSE "Audit Interrupted: Unexpected Hardware/API Exception."

\* catch (err) { setError(...) }
Catch ==
  /\ step = "caught"
  /\ error' = [text |-> ErrorText(thrown.message)]
  /\ step' = "finally"
  /\ UNCHANGED <<repos, profile, clock, pc, now, ninetyDaysAgo, scores, result,
                 first, loading, data, aiEval, username, thrown>>

\* finally { setLoading(false) }
Finally ==
  /\ step = "finally"
  /\ loading' = FALSE
  /\ step' = "idle"
  /\ UNCHANGED <<repos, profile, clock, pc, now, ninetyDaysAgo, scores, result,
                 first, error, data, aiEval, username, thrown>>

InitApp ==
  /\ repos = <<>>
  /\ profile = ProfileTwoYears
  /\ Start

\* an awaited promise settles: fetchGitHubData's or generateAIEvaluation's
Settles ==
  \/ \E message \in {"CANDIDATE_NOT_FOUND", "RATE_LIMIT_EXCEEDED",
                     "API_FAILURE: Internal Server Error",
                     "Failed to fetch", ""} : FetchThrows(message)
  \/ \E reposOk \in BOOLEAN : FetchReturns(reposOk)
  \/ \E outcome \in {"setup", "call", "parse", "answer"} : Evaluate(outcome)

\* const metrics = calculateHireabilityScore(profile, repos)
Scoring ==
  \/ step = "scoring" /\ SampleNow
  \/ step = "scoring" /\ Tick
  \/ step = "scoring" /\ Score

\* the steps of Scoring that move the call on (SampleNow and Score), told by
\* their effect on pc
ScoringAdvances ==
  /\ step = "scoring"
  /\ \/ pc = "idle" /\ pc' = "now"
     \/ pc = "now" /\ pc' = "done"

\* the continuation of handleAnalyze after the awaits
Continues == SetData \/ Catch \/ Finally

NextApp ==
  \/ \E u \in Usernames : Submit(u)
  \/ Settles
  \/ Scoring
  \/ Continues

\* every awaited promise settles, the synchronous code runs to its end; the
\* user need not submit again, the clock need not advance
SpecApp ==
  /\ InitApp
  /\ [][NextApp]_vars
  /\ WF_vars(Settles)
  /\ WF_pc(ScoringAdvances)
  /\ WF_vars(Continues)

-----------------------------------------------------------------------------
(* Properties *)

Done == pc = "done"

InRange(v, max) == 0 <= v /\ v <= max * SCALE

\* C1: every unrounded sub-score lies in its documented range: activity in
\* [0, 30], originality in [0, 20], diversity in [0, 15], documentation in
\* [0, 15], maturity in [0, 10], complexity in [0, 10].
C1_SubScoresInRange ==
  Done =>
    /\ InRange(scores.activityScore, 30)
    /\ InRange(scores.originalityScore, 20)
    /\ InRange(scores.diversityScore, 15)
    /\ InRange(scores.documentationScore, 15)
    /\ InRange(scores.followerSignal, 10)
    /\ InRange(scores.complexityScore, 10)

SumOfUnrounded ==
  scores.activityScore + scores.originalityScore + scores.diversityScore
  + scores.documentationScore + scores.followerSignal + scores.complexityScore

\* C2: the total is non-negative and is the rounding of the sum of the six
\* unrounded sub-scores.
C2_TotalIsRoundedSum ==
  Done =>
    /\ result.totalScore >= 0
    /\ SCALE * (2 * result.totalScore - 1) <= 2 * SumOfUnrounded
    /\ 2 * SumOfUnrounded < SCALE * (2 * result.totalScore + 1)

\* v rounded to the nearest integer is n
RoundsTo(v, n) == SCALE * (2 * n - 1) <= 2 * v /\ 2 * v < SCALE * (2 * n + 1)

\* C3: the returned record exposes each of the six sub-scores, rounded.
C3_SixSubScoresExposed ==
  Done =>
    /\ {"activityScore", "originalityScore", "diversityScore",
        "documentationScore", "followerSignal", "complexityScore"}
         \subseteq DOMAIN result
    /\ RoundsTo(scores.activityScore, result.activityScore)
    /\ RoundsTo(scores.originalityScore, result.originalityScore)
    /\ RoundsTo(scores.diversityScore, result.diversityScore)
    /\ RoundsTo(scores.documentationScore, result.documentationScore)
    /\ RoundsTo(scores.followerSignal, result.followerSignal)
    /\ RoundsTo(scores.complexityScore, result.complexityScore)

\* C4: with an empty repository list the call returns (no quotient by the
\* empty count is formed), with activity, originality, diversity,
\* documentation and complexity scores 0, day-gap 999, level INACTIVE,
\* velocity 0 and 'N/A' for the last push.
C4_EmptyListResult ==
  (Done /\ repos = <<>>) =>
    /\ scores.activityScore = 0
    /\ scores.originalityScore = 0
    /\ scores.diversityScore = 0
    /\ scores.documentationScore = 0
    /\ scores.complexityScore = 0
    /\ result.daysSinceLastActivity = 999
    /\ result.activityLevel = "INACTIVE"
    /\ result.recentActivityVelocity = 0
    /\ result.lastCommitDate = NA

C4_Witness ==
  Done /\ repos = <<>> /\ profile = ProfileVeteran /\ result.totalScore = 10

\* the instants of the pushes of the whole list, forks included
PushTimes == {GetTime(repos[i].pushed_at) : i \in 1..Len(repos)}

LatestPush == CHOOSE t \in PushTimes : \A u \in PushTimes : u <= t

PushedSince(instant) ==
  Cardinality({i \in 1..Len(repos) : GetTime(repos[i].pushed_at) >= instant})

AllForks == repos # <<>> /\ \A i \in 1..Len(repos) : repos[i].fork

\* C5: when every repository of a non-empty list is a fork, the originality,
\* diversity, documentation and complexity scores are 0, and the last push,
\* the day-gap, the velocity, the level and the activity score are those of
\* the whole list.
C5_AllForks ==
  (Done /\ AllForks) =>
    /\ scores.originalityScore = 0
    /\ scores.diversityScore = 0
    /\ scores.documentationScore = 0
    /\ scores.complexityScore = 0
    /\ result.lastCommitDate = [t |-> LatestPush, off |-> 0]
    /\ result.daysSinceLastActivity * Day <= now - LatestPush
    /\ now - LatestPush < (result.daysSinceLastActivity + 1) * Day
    /\ result.recentActivityVelocity = PushedSince(ninetyDaysAgo)
    /\ result.activityLevel =
         (IF now - LatestPush < 8 * Day /\ PushedSince(ninetyDaysAgo) >= 5
          THEN "HIGHLY_ACTIVE"
          ELSE IF now - LatestPush < 31 * Day /\ PushedSince(ninetyDaysAgo) >= 1
               THEN "MODERATELY_ACTIVE"
               ELSE "INACTIVE")
    /\ (0 < result.daysSinceLastActivity /\ result.daysSinceLastActivity < 90) =>
         90 * scores.activityScore
           = 3 * Min(10, PushedSince(ninetyDaysAgo))
               * (90 - result.daysSinceLastActivity) * SCALE

C5_Witness ==
  /\ Done
  /\ AllForks
  /\ result.recentActivityVelocity = 5
  /\ result.daysSinceLastActivity = 7
  /\ result.activityLevel = "HIGHLY_ACTIVE"
  /\ result.activityScore = 14

\* C6: the level is HIGHLY_ACTIVE exactly when day-gap <= 7 and velocity >= 5,
\* otherwise MODERATELY_ACTIVE exactly when day-gap <= 30 and velocity >= 1,
\* otherwise INACTIVE.
C6_ActivityLevel ==
  Done =>
    LET d == result.daysSinceLastActivity
        v == result.recentActivityVelocity
        high == d <= 7 /\ v >= 5
        moderate == ~high /\ d <= 30 /\ v >= 1
    IN  /\ result.activityLevel
             \in {"HIGHLY_ACTIVE", "MODERATELY_ACTIVE", "INACTIVE"}
        /\ result.activityLevel = "HIGHLY_ACTIVE" <=> high
        /\ result.activityLevel = "MODERATELY_ACTIVE" <=> moderate
        /\ result.activityLevel = "INACTIVE" <=> ~high /\ ~moderate

C6_Witness ==
  /\ Done
  /\ result.daysSinceLastActivity = 7
  /\ result.recentActivityVelocity = 5
  /\ result.activityLevel = "HIGHLY_ACTIVE"

C8_SingleSample ==
  Done => ninetyDaysAgo = SetDate(now, GetDate(now) - 90)

\* C9: two calls with the same profile, the same repository list and the same
\* value of now return the same record.
C9_SameNowSameResult ==
  (Done /\ first.called /\ first.now = now) => result = first.result

Scenario ==
  /\ profile.followers = 50
  /\ now - GetTime(profile.created_at) = 2 * 365 * Day
  /\ Len(repos) = 1
  /\ ~repos[1].fork
  /\ 0 <= now - GetTime(repos[1].pushed_at)
  /\ now - GetTime(repos[1].pushed_at) < Day
  /\ repos[1].stargazers_count = 120
  /\ OptLength(repos[1].description) = 40
  /\ repos[1].has_issues
  /\ repos[1].size = 5000
  /\ repos[1].language = "Go"

\* C10: for a profile created 2 years ago with 50 followers and one original
\* repository pushed today, with 120 stars, a 40-character description,
\* issues enabled, size 5000 and language "Go", the total is 57.
C10_ScenarioTotal57 ==
  (Done /\ Scenario) => result.totalScore = 57

\* C10 as stated: the total of the scenario is 58.
C10_ScenarioTotal58 ==
  (Done /\ Scenario) => result.totalScore = 58

C10_Witness ==
  /\ Done
  /\ Scenario
  /\ result.activityScore = 3
  /\ result.originalityScore = 20
  /\ result.documentationScore = 15

Originals == {i \in 1..Len(repos) : ~repos[i].fork}

\* the distinct non-empty languages of the original repositories
OriginalLanguages ==
  {repos[i].language : i \in Originals} \ {"", Absent}

Described ==
  {i \in Originals :
     repos[i].description # Absent /\ Len(repos[i].description) > 20}

\* the original repositories with at least one feature switched on
Featured ==
  {i \in Originals :
     repos[i].has_issues \/ repos[i].has_projects \/ repos[i].has_pages}

\* C12: the unrounded documentation score is 15 * (D + F) / (2 * N) over the
\* N original repositories, D of them with a description of more than 20
\* characters and F with at least one feature; it is 0 when N = 0.
C12_DocumentationScore ==
  Done =>
    LET N == Cardinality(Originals)
        D == Cardinality(Described)
        F == Cardinality(Featured)
    IN  /\ N = 0 => scores.documentationScore = 0
        /\ N > 0 => 2 * N * scores.documentationScore = 15 * (D + F) * SCALE

C12_Witness ==
  /\ Done
  /\ Cardinality(Originals) = 3
  /\ Cardinality(Described) = 1
  /\ Cardinality(Featured) = 2
  /\ \E i \in 1..Len(repos) :
       repos[i].fork /\ Len(repos[i].description) > 20 /\ repos[i].has_issues
  /\ \E i \in Originals : repos[i].description = ""
  /\ \E i \in Originals : OptLength(repos[i].description) = 20
  /\ \E i \in Originals : OptLength(repos[i].description) = 21
  /\ 2 * scores.documentationScore = 15 * SCALE


\* C13: calculateHireabilityScore leaves its inputs unchanged: from the
\* first reading of the clock to the return, no step of the call changes the
\* caller's repository list (same elements, same order: the sort by push
\* time works on a copy), the repository records or the profile record
C13_InputsUnchanged ==
  [][(pc = "now" \/ pc' = "now") => (repos' = repos /\ profile' = profile)]_vars

\* a call has returned over a list whose first element is not the latest
\* push, and it reported the latest push: the sort acted, the list kept its
\* order
C13_Witness ==
  /\ Done
  /\ Len(repos) >= 2
  /\ GetTime(repos[1].pushed_at) < LatestPush
  /\ sortedByPush(repos) # repos
  /\ result.lastCommitDate = ToISOString(LatestPush)

AIFailed == aiEval # Null /\ aiEval.outcome \in {"call", "parse"}

\* C14: when the generative-AI call or the parsing of its response fails,
\* generateAIEvaluation does not reject: it resolves with the fallback
\* evaluation, whose tier is 'Strong Hire' exactly when metrics.totalScore
\* is above 70 and 'Needs Improvement' otherwise (so also at exactly 70),
\* and never 'Elite', 'Hireable' or 'Reject'
C14_FallbackTier ==
  AIFailed =>
    /\ aiEval.settled = "resolved"
    /\ thrown = Null
    /\ aiEval.value.risks = <<"Qualitative audit failed (API)">>
    /\ result.totalScore > 70 <=> aiEval.value.tier = HiringTier.STRONG_HIRE
    /\ result.totalScore <= 70 <=> aiEval.value.tier = HiringTier.NEEDS_IMPROVEMENT
    /\ aiEval.value.tier \notin
         {HiringTier.ELITE, HiringTier.HIREABLE, HiringTier.REJECT}

\* the response could not be parsed for a candidate whose total is exactly 70
C14_Witness ==
  /\ AIFailed
  /\ aiEval.outcome = "parse"
  /\ result.totalScore = 70
  /\ aiEval.settled = "resolved"
  /\ aiEval.value.tier = HiringTier.NEEDS_IMPROVEMENT

\* what the page shows: {error && ...}, {data && ...}
ErrorShown == error # Null /\ error.text # ""

DataShown == data # Null

RunEnded == step = "finally" \/ (step = "idle" /\ username # "")

RunState ==
  /\ loading <=> step # "idle"
  /\ step \in {"fetching", "scoring", "evaluated", "caught"} =>
       data = Null /\ error = Null
  /\ RunEnded => (DataShown <=> ~ErrorShown)
  /\ DataShown =>
       /\ username \in DOMAIN Accounts
       /\ thrown = Null
       /\ data.profile = Accounts[username].profile
       /\ data.repos \in {Accounts[username].repos, <<>>}
       /\ pc = "done"
       /\ data.metrics = Metrics(data.repos, now, ninetyDaysAgo,
                                 Locals(data.profile, data.repos, now, ninetyDaysAgo))
       /\ aiEval # Null
       /\ aiEval.settled = "resolved"
       /\ data.aiEval = aiEval.value
       /\ aiEval.outcome # "answer" => data.aiEval = Fallback(data.metrics)
  /\ error # Null => thrown # Null /\ data = Null
  /\ ~(DataShown /\ ErrorShown)

\* C15: in every run of handleAnalyze with a non-blank username, whatever
\* succeeds or throws: loading is true from the start of the run to its end
\* and is eventually set back to false; data and error are cleared at the
\* start and stay so while the run is under way; at the end exactly one of
\* data and error is set, data only after the fetch, the scoring and the AI
\* evaluation completed in that order, error only when one of them threw;
\* a result and an error are never shown together
C15_HandleAnalyze == []RunState /\ (loading ~> ~loading)

\* a run has ended in which the fetch and the scoring succeeded and the AI
\* evaluation threw: the error is shown, no result, loading is false again
C15_Witness ==
  /\ step = "idle"
  /\ username \in DOMAIN Accounts
  /\ pc = "done"
  /\ aiEval # Null
  /\ aiEval.settled = "rejected"
  /\ ErrorShown
  /\ ~DataShown
  /\ ~loading

=============================================================================
